---- MODULE Spec2Model ----
(***************************************************************************)
(* Admission queue and generation orchestration of the maps4fs web UI      *)
(* (webui/generator.py).  Every session is one script run of GeneratorUI:  *)
(* the Generate button is rendered (add_left_widgets), and a click runs    *)
(* generate_map.  The Queue Store (webui/queuing.py) is shared by all      *)
(* sessions; its four operations are modelled from the specification.      *)
(*                                                                         *)
(* Coordinates are integers in units of 1e-6 degree; the clock counts      *)
(* seconds, the resolution of the timestamp in the session name.           *)
(***************************************************************************)
EXTENDS Integers, Sequences, FiniteSets, TLC

VARIABLES
    public,     \* config.is_public(): the deployment is capacity-limited
    community,  \* config.is_on_community_server()
    clock,      \* the second shown by datetime.now() when last read
    queue,      \* the Queue Store: session names, head first
    before,     \* ghost: <<a, b>> when a and b are present and a was inserted first
    pc,         \* per session: position in the script run
    disabled,   \* per session: generate_button_disabled
    req,        \* per session: the submitted form
    name,       \* per session: session_name
    completed,  \* per session: the progress counter `completed`
    yielded,    \* per session: stage names produced by mp.generate() so far
    out,        \* per session: what the UI was shown, in order
    stages,     \* per session: len(game.components)
    result,     \* per session: how generate_map ended
    generated,  \* per session: st.session_state.generated
    download_path, \* per session: self.download_path, NoName while None
    scheduled,  \* ghost, per session: remove_with_delay_without_blocking calls
    waitOrder,  \* ghost: the sessions inside wait_in_queue, in add_to_queue order
    observed,   \* ghost, per session: the rank read by the poll that ended the wait
    enq,        \* ghost, per session: add_to_queue calls
    deq         \* ghost, per session: remove_from_queue calls

vars == <<public, community, clock, queue, before, pc, disabled, req,
          name, completed, yielded, out, stages, result, generated,
          download_path, scheduled, waitOrder, observed, enq, deq>>

----------------------------------------------------------------------------
(* Bounds of the model *)

NumSessions == 4
MaxClock == 2
MaxStages == 2
MaxYield == 2
MaxPolls == 2

Sessions == 1..NumSessions

(* Program constants *)

QUEUE_LIMIT == 2
DEFAULT_LAT == 45285714
DEFAULT_LON == 20237433

Range(f) == {f[i] : i \in DOMAIN f}

----------------------------------------------------------------------------
(* Form inputs.  A text field split on its separator is a sequence of      *)
(* tokens; a token either is a numeral (num, with its value) or is not.    *)

Num(n) == [num |-> TRUE, v |-> n]
Junk == [num |-> FALSE, v |-> 0]

DefaultRequest ==
    [coords  |-> <<Num(DEFAULT_LAT), Num(DEFAULT_LON)>>,
     size    |-> <<Num(2048), Num(2048)>>,
     raw     |-> "off",
     texture |-> "off",
     tree    |-> "off"]

CoordInputs ==
    { <<Num(DEFAULT_LAT), Num(DEFAULT_LON)>>,
      <<Num(DEFAULT_LAT - 2), Num(DEFAULT_LON)>>,
      <<Num(91000000), Num(0)>>,
      <<Num(DEFAULT_LAT)>>,
      <<Junk, Num(DEFAULT_LON)>> }

SizeInputs ==
    { <<Num(2048), Num(2048)>>,
      <<Num(2047), Num(2047)>>,
      <<Num(2048), Num(4096)>>,
      <<Num(2048), Num(2048), Num(2048)>>,
      <<Num(2048), Junk>> }

JsonInputs == {"off", "valid", "malformed"}

Requests ==
    {[DefaultRequest EXCEPT !.coords = c] : c \in CoordInputs}
    \cup {[DefaultRequest EXCEPT !.size = z] : z \in SizeInputs}
    \cup {[DefaultRequest EXCEPT !.raw = j] : j \in JsonInputs}
    \cup {[DefaultRequest EXCEPT !.texture = j] : j \in JsonInputs}
    \cup {[DefaultRequest EXCEPT !.tree = j] : j \in JsonInputs}

Errors == {"EngineError", "OSError"}
Faults == {"none", "from_code", "makedirs", "settings", "map"}

(* Session 1 is followed in full: any form, any number of stages, either   *)
(* error.  The other sessions leave the prefilled form as it is and run a  *)
(* game of one component.                                                  *)
RequestsOf(s) == IF s = 1 THEN Requests ELSE {DefaultRequest}
StagesOf(s) == IF s = 1 THEN 0..MaxStages ELSE {1}
YieldsOf(s) == IF s = 1 THEN MaxYield ELSE 1
ErrorsOf(s) == IF s = 1 THEN Errors ELSE {"EngineError"}

----------------------------------------------------------------------------
(* Pure functions of generator.py *)

(* tuple(map(float, text.split(","))): every field must be a numeral. *)
AllNumerals(fields) == \A i \in DOMAIN fields : fields[i].num

(* lat, lon = self.lat_lon: a ValueError from float() or from unpacking.  *)
LatLonFails(fields) == ~AllNumerals(fields) \/ Len(fields) # 2

(* height, width = self.map_size: a ValueError from int() or unpacking.   *)
MapSizeFails(fields) == ~AllNumerals(fields) \/ Len(fields) # 2

(* Mutant of SizeError: the parity check is missing. *)
SizeErrorNoParity(fields) ==
    IF ~AllNumerals(fields) \/ Len(fields) # 2 THEN "Invalid map size!"
    ELSE IF fields[1].v # fields[2].v
         THEN "Map size must be square (height == width)."
    ELSE ""

(* The three checks on the map size, in the order of the code; the value  *)
(* is the message shown, "" when the size is accepted.                    *)
SizeError(fields) ==
    IF MapSizeFails(fields) THEN "Invalid map size!"
    ELSE IF fields[1].v % 2 # 0 \/ fields[2].v % 2 # 0
         THEN "Map size must be a power of 2."
    ELSE IF fields[1].v # fields[2].v
         THEN "Map size must be square (height == width)."
    ELSE ""

(* f"{coordinate:.5f}": the sign and the value rounded to 1e-5 degree.    *)
shorten_coordinate(c) ==
    IF c >= 0 THEN <<FALSE, (c + 5) \div 10>>
    ELSE <<TRUE, ((0 - c) + 5) \div 10>>

(* strftime("%Y-%m-%d_%H-%M-%S"): the clock to the second. *)
Timestamp(now) == now

get_sesion_name(game, lat, lon, now) ==
    <<game, shorten_coordinate(lat), shorten_coordinate(lon), Timestamp(now)>>

NoName == <<"", <<FALSE, 0>>, <<FALSE, 0>>, 0 - 1>>

(* json.loads of a text area: JSONDecodeError on malformed text. *)
JsonFails(text) == text = "malformed"

(* generate_map up to the construction of mfs.Map (lines 452-537), as one *)
(* sequential pass: the first statement that stops the routine decides.   *)
(* fault names the collaborator call that raises, if any.  The value is   *)
(* how the pass ends and the message it shows.                            *)
Prologue(r, fault) ==
    IF fault = "from_code" THEN [end |-> "raised", msg |-> ""]
    ELSE IF LatLonFails(r.coords)
         THEN [end |-> "invalid", msg |-> "Invalid latitude and longitude!"]
    ELSE IF SizeError(r.size) # ""
         THEN [end |-> "invalid", msg |-> SizeError(r.size)]
    ELSE IF fault = "makedirs" THEN [end |-> "raised", msg |-> ""]
    ELSE IF r.raw # "off" /\ JsonFails(r.raw)
         THEN [end |-> "invalid", msg |-> "Invalid raw configuration was provided"]
    ELSE IF fault = "settings" THEN [end |-> "raised", msg |-> ""]
    ELSE IF r.texture # "off" /\ JsonFails(r.texture)
         THEN [end |-> "invalid", msg |-> "Invalid texture schema was provided"]
    ELSE IF r.tree # "off" /\ JsonFails(r.tree)
         THEN [end |-> "invalid", msg |-> "Invalid tree schema was provided"]
    ELSE IF fault = "map" THEN [end |-> "raised", msg |-> ""]
    ELSE [end |-> "ok", msg |-> ""]

(* Mutant of Step: the quotient is rounded up. *)
StepRoundedUp(n) == (100 + n + 1) \div (n + 2)

(* step = int(100 / (len(game.components) + 2)) *)
Step(n) == 100 \div (n + 2)

(* Mutant of GenerateDisabled: the comparison is off by one. *)
GenerateDisabledOffByOne(pub, length) == pub /\ length > QUEUE_LIMIT

(* generate_button_disabled *)
GenerateDisabled(pub, length) == pub /\ length >= QUEUE_LIMIT

----------------------------------------------------------------------------
(* The Queue Store (queuing.py), from section 4.1 of the specification *)

NotFound == 0 - 1

Present(q, id) == \E i \in DOMAIN q : q[i] = id

(* Mutant of add_to_queue: a new name goes to the head. *)
add_to_queue_at_head(q, id) == IF Present(q, id) THEN q ELSE <<id>> \o q

(* Mutant of add_to_queue: the name is appended without a look. *)
add_to_queue_always(q, id) == Append(q, id)

(* enqueue: at the tail if absent, otherwise nothing. *)
add_to_queue(q, id) == IF Present(q, id) THEN q ELSE Append(q, id)

get_queue_length(q) == Len(q)

(* rank: entries before id, NotFound when id is absent. *)
rank(q, id) ==
    IF Present(q, id)
    THEN (CHOOSE i \in DOMAIN q : q[i] = id /\ \A j \in 1..(i - 1) : q[j] # id) - 1
    ELSE NotFound

(* Mutant of remove_from_queue: an absent name removes the head. *)
remove_from_queue_or_head(q, id) ==
    IF Present(q, id) THEN SelectSeq(q, LAMBDA x : x # id)
    ELSE IF q = <<>> THEN q ELSE Tail(q)

(* dequeue: removes id if present, keeps the order of the rest. *)
remove_from_queue(q, id) == SelectSeq(q, LAMBDA x : x # id)

----------------------------------------------------------------------------
(* What the UI is shown *)

Position(n) == [k |-> "position", v |-> n, e |-> ""]
Progress(n) == [k |-> "progress", v |-> n, e |-> ""]
Invalid(m)  == [k |-> "invalid",  v |-> 0, e |-> m]
Success     == [k |-> "success",  v |-> 0, e |-> ""]

(* Mutant of Failure: the except clause reports a success. *)
FailureAsSuccess(x) == Success

Failure(x)  == [k |-> "error",    v |-> 0, e |-> x]
Download(f) == [k |-> "download", v |-> 0, e |-> f]

(* The rank no poll has read yet. *)
NoRank == 0 - 2

(* mp.pack(os.path.join(config.ARCHIVES_DIRECTORY, session_name)) *)
archive_path(n) == n

(* Mutant of Pressable: the community server shows the button too. *)
PressableAnywhere(onCommunity, dis) == ~dis

(* lines 402-405: the button is there and can be pressed. *)
Pressable(onCommunity, dis) == ~onCommunity /\ ~dis

(* Mutant of ShowsDownload: the download section runs on every render. *)
ShowsDownloadAlways(gen) == TRUE

(* line 408: if st.session_state.generated *)
ShowsDownload(gen) == gen

(* Mutant of Advance: the counter goes down. *)
AdvanceDown(c, st) == c - st

(* completed += step *)
Advance(c, st) == c + st

(* Mutant of Caught: only the engine's own error class is caught. *)
CaughtEngineOnly(x) == x = "EngineError"

(* except Exception as e: every error of the try block is caught. *)
Caught(x) == x \in Errors

(* Mutant of CallsRemove: the finally clause does not look at the flag. *)
CallsRemoveAlways(pub, res) == TRUE

(* Mutant of CallsRemove: the release is the last line of the happy path. *)
CallsRemoveOnSuccess(pub, res) == pub /\ res = "Done"

(* finally: if self.public: remove_from_queue(session_name) *)
CallsRemove(pub, res) == pub

----------------------------------------------------------------------------
(* The state after GeneratorUI.__init__ has built the page for the users  *)
(* who opened it; a session nobody opened takes no step.                  *)
InitWith(modes, hosts, users) ==
    /\ public \in modes
    /\ community \in hosts
    /\ clock = 0
    /\ queue = <<>>
    /\ before = {}
    /\ pc = [s \in Sessions |-> IF s \in users THEN "idle" ELSE "absent"]
    /\ disabled = [s \in Sessions |-> FALSE]
    /\ req = [s \in Sessions |-> DefaultRequest]
    /\ name = [s \in Sessions |-> NoName]
    /\ completed = [s \in Sessions |-> 0]
    /\ yielded = [s \in Sessions |-> 0]
    /\ out = [s \in Sessions |-> <<>>]
    /\ stages = [s \in Sessions |-> 0]
    /\ result = [s \in Sessions |-> "none"]
    /\ generated = [s \in Sessions |-> FALSE]
    /\ download_path = [s \in Sessions |-> NoName]
    /\ scheduled = [s \in Sessions |-> 0]
    /\ waitOrder = <<>>
    /\ observed = [s \in Sessions |-> NoRank]
    /\ enq = [s \in Sessions |-> 0]
    /\ deq = [s \in Sessions |-> 0]

(* add_left_widgets, lines 396-400: the Generate button is rendered; the   *)
(* queue length is read only on a public server.                           *)
Render(s) ==
    /\ pc[s] = "idle"
    /\ disabled' = [disabled EXCEPT ![s] = GenerateDisabled(public, get_queue_length(queue))]
    /\ pc' = [pc EXCEPT ![s] = "rendered"]
    /\ UNCHANGED <<generated, download_path, scheduled, waitOrder, observed>>
    /\ UNCHANGED <<public, community, clock, queue, before, req, name, completed,
                   yielded, out, stages, result, enq, deq>>

(* The button is pressed (lines 402-405) and generate_map runs up to the   *)
(* construction of mfs.Map (lines 452-537).  The clock is read here only   *)
(* (line 436): it shows the second of the last reading, or a later one.    *)
Prepare(s) ==
    /\ pc[s] = "rendered"
    /\ Pressable(community, disabled[s])
    /\ \E r \in RequestsOf(s), n \in StagesOf(s), fault \in Faults,
          now \in {t \in {clock, clock + 1} : t <= MaxClock} :
        LET p == Prologue(r, fault) IN
        /\ clock' = now
        /\ req' = [req EXCEPT ![s] = r]
        /\ stages' = [stages EXCEPT ![s] = n]
        /\ IF p.end = "ok"
           THEN /\ name' = [name EXCEPT ![s] =
                        get_sesion_name("FS25", r.coords[1].v, r.coords[2].v, now)]
                /\ pc' = [pc EXCEPT ![s] = IF public THEN "enqueue" ELSE "try"]
                /\ UNCHANGED <<out, result>>
           ELSE IF p.end = "invalid"
           THEN /\ out' = [out EXCEPT ![s] = Append(@, Invalid(p.msg))]
                /\ result' = [result EXCEPT ![s] = "InputError"]
                /\ pc' = [pc EXCEPT ![s] = "returned"]
                /\ UNCHANGED name
           ELSE /\ result' = [result EXCEPT ![s] = "Raised"]
                /\ pc' = [pc EXCEPT ![s] = "crashed"]
                /\ UNCHANGED <<out, name>>
    /\ UNCHANGED <<generated, download_path, scheduled, waitOrder, observed>>
    /\ UNCHANGED <<public, community, queue, before, disabled,
                   completed, yielded, enq, deq>>

(* line 540: add_to_queue(session_name) *)
Enqueue(s) ==
    /\ pc[s] = "enqueue"
    /\ queue' = add_to_queue(queue, name[s])
    /\ before' = IF Present(queue, name[s]) THEN before
                 ELSE before \cup {<<a, name[s]>> : a \in Range(queue)}
    /\ enq' = [enq EXCEPT ![s] = @ + 1]
    /\ waitOrder' = Append(waitOrder, s)
    /\ pc' = [pc EXCEPT ![s] = "waiting"]
    /\ UNCHANGED <<generated, download_path, scheduled, observed>>
    /\ UNCHANGED <<public, community, clock, disabled, req, name, completed,
                   yielded, out, stages, result, deq>>

(* lines 541-544, one poll of wait_in_queue that yields a position, which  *)
(* is shown.                                                               *)
PollWait(s) ==
    /\ pc[s] = "waiting"
    /\ rank(queue, name[s]) > 0
    /\ Len(out[s]) < MaxPolls
    /\ out' = [out EXCEPT ![s] = Append(@, Position(rank(queue, name[s])))]
    /\ UNCHANGED <<generated, download_path, scheduled, waitOrder, observed>>
    /\ UNCHANGED <<public, community, clock, queue, before, pc, disabled,
                   req, name, completed, yielded, stages, result, enq, deq>>

(* The poll that ends wait_in_queue: the rank is 0.  A poll that finds the *)
(* name gone (removed by a run with the same name) is left open by the     *)
(* specification: the wait may end, or go on for ever.                     *)
PollProceed(s) ==
    /\ pc[s] = "waiting"
    /\ rank(queue, name[s]) \in {0, NotFound}
    /\ observed' = [observed EXCEPT ![s] = rank(queue, name[s])]
    /\ waitOrder' = SelectSeq(waitOrder, LAMBDA w : w # s)
    /\ pc' = [pc EXCEPT ![s] = "try"]
    /\ UNCHANGED <<generated, download_path, scheduled>>
    /\ UNCHANGED <<public, community, clock, queue, before, disabled,
                   req, name, completed, yielded, out, stages, result, enq, deq>>

(* An error raised by wait_in_queue or by status_container.info: lines     *)
(* 541-544 are outside the try block, the error leaves generate_map.       *)
WaitRaises(s) ==
    /\ pc[s] = "waiting"
    /\ result' = [result EXCEPT ![s] = "Raised"]
    /\ waitOrder' = SelectSeq(waitOrder, LAMBDA w : w # s)
    /\ pc' = [pc EXCEPT ![s] = "crashed"]
    /\ UNCHANGED <<generated, download_path, scheduled, observed>>
    /\ UNCHANGED <<public, community, clock, queue, before, disabled,
                   req, name, completed, yielded, out, stages, enq, deq>>

(* lines 547-551: completed = 0; progress_bar = st.progress(0) *)
Start(s) ==
    /\ pc[s] = "try"
    /\ completed' = [completed EXCEPT ![s] = 0]
    /\ out' = [out EXCEPT ![s] = Append(@, Progress(0))]
    /\ pc' = [pc EXCEPT ![s] = "generate"]
    /\ UNCHANGED <<generated, download_path, scheduled, waitOrder, observed>>
    /\ UNCHANGED <<public, community, clock, queue, before, disabled,
                   req, name, yielded, stages, result, enq, deq>>

(* lines 552-554: mp.generate() yields one more stage name. *)
Stage(s) ==
    /\ pc[s] = "generate"
    /\ yielded[s] < YieldsOf(s)
    /\ out' = [out EXCEPT ![s] = Append(@, Progress(completed[s]))]
    /\ completed' = [completed EXCEPT ![s] = Advance(@, Step(stages[s]))]
    /\ yielded' = [yielded EXCEPT ![s] = @ + 1]
    /\ UNCHANGED <<generated, download_path, scheduled, waitOrder, observed>>
    /\ UNCHANGED <<public, community, clock, queue, before, pc, disabled,
                   req, name, stages, result, enq, deq>>

(* lines 556-557: mp.generate() is exhausted; "Creating previews...". *)
StagesDone(s) ==
    /\ pc[s] = "generate"
    /\ completed' = [completed EXCEPT ![s] = Advance(@, Step(stages[s]))]
    /\ out' = [out EXCEPT ![s] = Append(@, Progress(Advance(completed[s], Step(stages[s]))))]
    /\ pc' = [pc EXCEPT ![s] = "previews"]
    /\ UNCHANGED <<generated, download_path, scheduled, waitOrder, observed>>
    /\ UNCHANGED <<public, community, clock, queue, before, disabled,
                   req, name, yielded, stages, result, enq, deq>>

(* lines 560-564: the previews are shown; "Packing the map...". *)
Previews(s) ==
    /\ pc[s] = "previews"
    /\ completed' = [completed EXCEPT ![s] = Advance(@, Step(stages[s]))]
    /\ out' = [out EXCEPT ![s] = Append(@, Progress(Advance(completed[s], Step(stages[s]))))]
    /\ pc' = [pc EXCEPT ![s] = "pack"]
    /\ UNCHANGED <<generated, download_path, scheduled, waitOrder, observed>>
    /\ UNCHANGED <<public, community, clock, queue, before, disabled,
                   req, name, yielded, stages, result, enq, deq>>

(* lines 567-576: mp.pack succeeds, the archive path and the flag are     *)
(* stored; the success message is shown.                                   *)
Pack(s) ==
    /\ pc[s] = "pack"
    /\ download_path' = [download_path EXCEPT ![s] = archive_path(name[s])]
    /\ generated' = [generated EXCEPT ![s] = TRUE]
    /\ out' = [out EXCEPT ![s] = Append(@, Success)]
    /\ result' = [result EXCEPT ![s] = "Done"]
    /\ pc' = [pc EXCEPT ![s] = "finally"]
    /\ UNCHANGED <<scheduled, waitOrder, observed>>
    /\ UNCHANGED <<public, community, clock, queue, before, disabled,
                   req, name, completed, yielded, stages, enq, deq>>

(* lines 567-581: mp.pack succeeds, the archive path and the flag are     *)
(* stored, and the report of the success (lines 573-576) raises x.         *)
ReportRaises(s) ==
    /\ pc[s] = "pack"
    /\ download_path' = [download_path EXCEPT ![s] = archive_path(name[s])]
    /\ generated' = [generated EXCEPT ![s] = TRUE]
    /\ \E x \in ErrorsOf(s) :
        IF Caught(x)
        THEN /\ out' = [out EXCEPT ![s] = Append(@, Failure(x))]
             /\ result' = [result EXCEPT ![s] = "Failed"]
        ELSE /\ result' = [result EXCEPT ![s] = "Raised"]
             /\ UNCHANGED out
    /\ pc' = [pc EXCEPT ![s] = "finally"]
    /\ UNCHANGED <<scheduled, waitOrder, observed>>
    /\ UNCHANGED <<public, community, clock, queue, before, disabled,
                   req, name, completed, yielded, stages, enq, deq>>

(* lines 577-581: a statement of the try block raises x. *)
Raise(s) ==
    /\ pc[s] \in {"try", "generate", "previews", "pack"}
    /\ \E x \in ErrorsOf(s) :
        IF Caught(x)
        THEN /\ out' = [out EXCEPT ![s] = Append(@, Failure(x))]
             /\ result' = [result EXCEPT ![s] = "Failed"]
        ELSE /\ result' = [result EXCEPT ![s] = "Raised"]
             /\ UNCHANGED out
    /\ pc' = [pc EXCEPT ![s] = "finally"]
    /\ UNCHANGED <<generated, download_path, scheduled, waitOrder, observed>>
    /\ UNCHANGED <<public, community, clock, queue, before, disabled,
                   req, name, completed, yielded, stages, enq, deq>>

(* lines 582-584: the finally clause; then generate_map returns, or the    *)
(* error that was not caught goes on.  After a return the script run goes  *)
(* on with the download section (lines 407-423): the archive is offered,   *)
(* its deferred deletion is scheduled and the flag is cleared.             *)
Release(s) ==
    /\ pc[s] = "finally"
    /\ IF CallsRemove(public, result[s])
       THEN /\ queue' = remove_from_queue(queue, name[s])
            /\ before' = {p \in before : p[1] # name[s] /\ p[2] # name[s]}
            /\ deq' = [deq EXCEPT ![s] = @ + 1]
       ELSE UNCHANGED <<queue, before, deq>>
    /\ pc' = [pc EXCEPT ![s] = IF result[s] = "Raised" THEN "crashed" ELSE "returned"]
    /\ IF result[s] # "Raised" /\ ShowsDownload(generated[s])
       THEN /\ out' = [out EXCEPT ![s] = Append(@, Download(download_path[s]))]
            /\ scheduled' = [scheduled EXCEPT ![s] = @ + 1]
            /\ generated' = [generated EXCEPT ![s] = FALSE]
       ELSE UNCHANGED <<out, scheduled, generated>>
    /\ UNCHANGED <<download_path, waitOrder, observed>>
    /\ UNCHANGED <<public, community, clock, disabled, req, name,
                   completed, yielded, stages, result, enq>>

Next ==
    \E s \in Sessions :
        \/ Render(s)
        \/ Prepare(s)
        \/ Enqueue(s)
        \/ PollWait(s)
        \/ PollProceed(s)
        \/ WaitRaises(s)
        \/ Start(s)
        \/ Stage(s)
        \/ StagesDone(s)
        \/ Previews(s)
        \/ Pack(s)
        \/ ReportRaises(s)
        \/ Raise(s)
        \/ Release(s)

(* A public server, the community server or not, and the users who leave  *)
(* the form as it is.                                                      *)
Init == InitWith({TRUE}, BOOLEAN, Sessions \ {1})

Spec == Init /\ [][Next]_vars

(* One user followed in full beside one other, on either kind of server. *)
InitRun == InitWith(BOOLEAN, BOOLEAN, {1, 2})

SpecRun == InitRun /\ [][Next]_vars

(* The steps of session s that the script run takes by itself, once the   *)
(* button was pressed: the calls return and the polls of wait_in_queue go  *)
(* on.  The user's steps and the errors of the collaborators are left out. *)
Proceeds(s) ==
    \/ Enqueue(s)
    \/ PollWait(s)
    \/ PollProceed(s)
    \/ Start(s)
    \/ Stage(s)
    \/ StagesDone(s)
    \/ Previews(s)
    \/ Pack(s)
    \/ Release(s)

(* Two users on a public server, each script run scheduled fairly. *)
InitLive == InitWith({TRUE}, {FALSE}, {2, 3})

SpecLive == InitLive /\ [][Next]_vars /\ \A s \in Sessions : WF_vars(Proceeds(s))

----------------------------------------------------------------------------
(* Vocabulary of the properties *)

TryBlock == {"try", "generate", "previews", "pack"}
Running == {"generate"}
Finalizing == {"previews", "pack"}
Started(s) == pc[s] \notin {"absent", "idle", "rendered"}
Names == {name[s] : s \in Sessions}

(* The values passed to the progress bar by session s, in order. *)
ProgressOf(s) == SelectSeq(out[s], LAMBDA ev : ev.k = "progress")
Messages(s) == SelectSeq(out[s], LAMBDA ev : ev.k # "download")
Count(s, kind) == Len(SelectSeq(out[s], LAMBDA ev : ev.k = kind))

----------------------------------------------------------------------------
(* C1.  Exactly-once release.  On a public server, a run that entered the  *)
(* try block after its enqueue calls remove_from_queue exactly once,       *)
(* whether it ends Done or Failed: never before the finally clause, once   *)
(* in it, and its name is not in the store when the routine returns.       *)
ReleaseCountOk ==
    \A s \in Sessions :
        /\ deq[s] <= 1
        /\ deq[s] = 1 => enq[s] = 1
        /\ (pc[s] \in TryBlock \cup {"finally"}) => deq[s] = 0
        /\ (public /\ result[s] \in {"Done", "Failed"} /\ pc[s] # "finally")
              => (pc[s] = "returned" /\ enq[s] = 1 /\ deq[s] = 1)

ReleaseStepOk ==
    \A s \in Sessions :
        (public /\ pc[s] = "finally" /\ pc'[s] # "finally")
            => (deq'[s] = deq[s] + 1 /\ ~Present(queue', name[s]))

(* C1: a run that entered the try block after its enqueue releases exactly *)
(* once, Done or Failed, and its name is gone when it returns.             *)
ExactlyOnceRelease == []ReleaseCountOk /\ [][ReleaseStepOk]_vars

(* A failed run has returned and released while another entry is waiting. *)
ReleasedAfterFailure ==
    \E s \in Sessions :
        /\ public /\ pc[s] = "returned" /\ result[s] = "Failed"
        /\ enq[s] = 1 /\ deq[s] = 1 /\ queue # <<>>

(* C2.  Bounded concurrency.  On a public server the sessions that are     *)
(* generating, showing previews or packing never outnumber QUEUE_LIMIT.    *)
BoundedConcurrency ==
    public => Cardinality({s \in Sessions : pc[s] \in Running \cup Finalizing})
                 <= QUEUE_LIMIT

(* C3.  FIFO rank.  The rank of every present name is the number of        *)
(* present names that were inserted before it.                             *)
FifoRank ==
    \A id \in Range(queue) :
        rank(queue, id) = Cardinality({a \in Range(queue) : <<a, id>> \in before})

(* Two names wait behind each other after an earlier one was removed. *)
RankAfterDequeue ==
    /\ Len(queue) >= 2
    /\ \E s \in Sessions : deq[s] = 1 /\ ~Present(queue, name[s])
    /\ rank(queue, queue[1]) = 0
    /\ rank(queue, queue[2]) = 1

(* C4.  Engine failure handling.  An error raised in the try block is      *)
(* caught: the run leaves the block for the finally clause either Done,    *)
(* with the success message last, or Failed, with one failure message      *)
(* that carries an error text added; a failed run shows no success         *)
(* message, and generate_map then returns.                                 *)
FailureShown ==
    \A s \in Sessions :
        /\ result[s] = "Failed"
              => /\ Count(s, "error") = 1
                 /\ Count(s, "success") = 0
                 /\ Messages(s)[Len(Messages(s))].k = "error"
                 /\ Messages(s)[Len(Messages(s))].e \in Errors
                 /\ pc[s] \in {"finally", "returned"}
        /\ result[s] = "Done" => Count(s, "error") = 0 /\ Count(s, "success") = 1
        /\ pc[s] \in TryBlock => Count(s, "error") = 0 /\ Count(s, "success") = 0

LeavesTryBlockHandled ==
    \A s \in Sessions :
        /\ (pc[s] \in TryBlock /\ pc'[s] \notin TryBlock)
              => /\ pc'[s] = "finally"
                 /\ \/ result'[s] = "Done" /\ out'[s] = Append(out[s], Success)
                    \/ /\ result'[s] = "Failed"
                       /\ \E x \in Errors : out'[s] = Append(out[s], Failure(x))
        /\ (pc[s] = "finally" /\ pc'[s] # "finally") => pc'[s] = "returned"

(* C4: an error of the try block is caught, shown once with its text, and  *)
(* generate_map returns.                                                   *)
EngineFailureHandled == []FailureShown /\ [][LeavesTryBlockHandled]_vars

(* The engine raised after two stage names; the run has returned Failed. *)
FailedAfterTwoStages ==
    \E s \in Sessions :
        /\ pc[s] = "returned" /\ result[s] = "Failed"
        /\ yielded[s] = 2 /\ Len(ProgressOf(s)) = 3
        /\ out[s][Len(out[s])] = Failure("OSError")

(* C5.  Validation failures reserve nothing.  A request with malformed     *)
(* coordinates, a malformed, odd or non-square size, or malformed JSON in  *)
(* the raw configuration or a schema never calls add_to_queue or           *)
(* remove_from_queue and never gets past the checks; the step that         *)
(* rejects it leaves the store as it was, and the run ends with exactly    *)
(* one message, the validation error (or with the error of a collaborator  *)
(* that raised before the check was reached, and no message).              *)
TwoNumerals(fields) == Len(fields) = 2 /\ fields[1].num /\ fields[2].num

InputError(r) ==
    \/ ~TwoNumerals(r.coords)
    \/ ~TwoNumerals(r.size)
    \/ r.size[1].v % 2 = 1
    \/ r.size[2].v % 2 = 1
    \/ r.size[1].v # r.size[2].v
    \/ "malformed" \in {r.raw, r.texture, r.tree}

RejectedReservesNothing ==
    \A s \in Sessions :
        (Started(s) /\ InputError(req[s]))
            => /\ enq[s] = 0 /\ deq[s] = 0
               /\ ~Present(queue, name[s])
               /\ \/ /\ pc[s] = "returned" /\ result[s] = "InputError"
                     /\ Len(out[s]) = 1 /\ out[s][1].k = "invalid"
                  \/ pc[s] = "crashed" /\ result[s] = "Raised" /\ out[s] = <<>>

RejectionLeavesStore ==
    \A s \in Sessions :
        (pc[s] = "rendered" /\ pc'[s] # "rendered" /\ InputError(req'[s]))
            => queue' = queue /\ before' = before

OutOfRange(r) ==
    /\ TwoNumerals(r.coords)
    /\ (r.coords[1].v > 90 * 1000000 \/ r.coords[1].v < 0 - 90 * 1000000)

(* C6: a request with a latitude beyond 90 degrees never gets past the     *)
(* validation and is never enqueued.                                       *)
LatitudeRangeChecked ==
    \A s \in Sessions :
        OutOfRange(req[s])
            => /\ pc[s] \in {"absent", "idle", "rendered", "returned", "crashed"}
               /\ result[s] \in {"none", "InputError", "Raised"}
               /\ enq[s] = 0

(* C7.  Progress monotonicity.  The values passed to the progress bar      *)
(* never decrease, and when the run is Done the last one is the largest    *)
(* and is the value of the counter.                                        *)
ProgressMonotone ==
    \A s \in Sessions :
        LET v == ProgressOf(s) IN
        /\ \A i \in 1..(Len(v) - 1) : v[i].v <= v[i + 1].v
        /\ result[s] = "Done"
              => /\ Len(v) = yielded[s] + 3
                 /\ \A i \in 1..Len(v) : v[i].v <= v[Len(v)].v
                 /\ v[Len(v)].v = completed[s]

(* A run of two stages is Done and its progress went up on the way. *)
ProgressRose ==
    \E s \in Sessions :
        LET v == ProgressOf(s) IN
        /\ result[s] = "Done" /\ pc[s] = "returned" /\ yielded[s] = 2
        /\ v[1].v < v[Len(v)].v
        /\ v[3].v < v[4].v

(* C8.  Advisory admission.  The check is made when the button is          *)
(* rendered and nowhere else: a session rendered on a public server while  *)
(* the store holds QUEUE_LIMIT entries or more gets a disabled button and  *)
(* never enqueues, and that is all the check ensures; the store itself     *)
(* can hold more than QUEUE_LIMIT entries (OverAdmitted is reached).       *)
GateClosedAtRender ==
    \A s \in Sessions :
        (pc[s] = "idle" /\ pc'[s] = "rendered" /\ public
            /\ get_queue_length(queue) >= QUEUE_LIMIT) => disabled'[s]

ClosedGateHolds ==
    \A s \in Sessions : disabled[s] => pc[s] = "rendered" /\ enq[s] = 0

(* C8: the admission check acts at render time only; it keeps a session    *)
(* rendered at or above the ceiling from enqueueing, and no more.          *)
AdvisoryAdmission == []ClosedGateHolds /\ [][GateClosedAtRender]_vars

(* Three sessions passed the check and all three entries are in the store. *)
OverAdmitted ==
    /\ public
    /\ get_queue_length(queue) > QUEUE_LIMIT
    /\ Cardinality({s \in Sessions : ~disabled[s] /\ enq[s] = 1 /\ deq[s] = 0
                                       /\ Present(queue, name[s])}) >= 3

(* C9.  Dequeue is idempotent.  Removing a name that is not in the store   *)
(* leaves the store as it is, so removing a name twice is removing it      *)
(* once; the finally clause of a run whose name is already gone changes    *)
(* nothing.                                                                *)
AbsentRemovalIsNoOp ==
    \A id \in Names \cup {NoName} :
        /\ ~Present(queue, id) => remove_from_queue(queue, id) = queue
        /\ remove_from_queue(remove_from_queue(queue, id), id)
              = remove_from_queue(queue, id)
        /\ ~Present(remove_from_queue(queue, id), id)

AbsentReleaseStep ==
    \A s \in Sessions :
        (pc[s] = "finally" /\ pc'[s] # "finally" /\ ~Present(queue, name[s]))
            => queue' = queue

(* C9: removing an absent name changes nothing, in the store and in the    *)
(* finally clause.                                                         *)
DequeueIdempotent == []AbsentRemovalIsNoOp /\ [][AbsentReleaseStep]_vars

(* A run is about to release a name that a run of the same name already    *)
(* removed, while another entry is in the store.                           *)
ReleaseOfAbsentName ==
    \E s \in Sessions :
        /\ public /\ pc[s] = "finally" /\ enq[s] = 1
        /\ ~Present(queue, name[s])
        /\ queue # <<>>

(* C10.  No duplicates.  No name is in the store twice, and add_to_queue   *)
(* of a name that is present changes neither the store nor any rank.       *)
StoreHasNoDuplicates ==
    /\ \A i, j \in DOMAIN queue : i # j => queue[i] # queue[j]
    /\ \A id \in Range(queue) :
        /\ add_to_queue(queue, id) = queue
        /\ \A other \in Range(queue) :
              rank(add_to_queue(queue, id), other) = rank(queue, other)

PresentEnqueueStep ==
    \A s \in Sessions :
        (pc[s] = "enqueue" /\ pc'[s] # "enqueue" /\ Present(queue, name[s]))
            => queue' = queue

(* C10: a name is in the store at most once; enqueueing a present name     *)
(* changes nothing.                                                        *)
NoDuplicates == []StoreHasNoDuplicates /\ [][PresentEnqueueStep]_vars

(* Two sessions of one name have both enqueued, neither has released, and  *)
(* the store holds the name once, behind another entry.                    *)
DuplicateEnqueueAbsorbed ==
    \E s, t \in Sessions :
        /\ s # t /\ name[s] = name[t]
        /\ enq[s] = 1 /\ enq[t] = 1 /\ deq[s] = 0 /\ deq[t] = 0
        /\ Present(queue, name[s])
        /\ Len(queue) = 2

----------------------------------------------------------------------------
HandOffState ==
    \A s \in Sessions :
        /\ scheduled[s] <= 1
        /\ scheduled[s] = Count(s, "download")
        /\ scheduled[s] = 1
              => /\ download_path[s] # NoName
                 /\ ~generated[s]
                 /\ pc[s] = "returned"
        /\ download_path[s] = NoName => scheduled[s] = 0 /\ ~generated[s]
        /\ generated[s] => scheduled[s] = 0 /\ pc[s] = "finally"

SchedulesAfterOffer ==
    \A s \in Sessions :
        scheduled'[s] # scheduled[s]
            => /\ generated[s] /\ ~generated'[s]
               /\ download_path[s] = archive_path(name[s])
               /\ out'[s] = Append(out[s], Download(download_path[s]))
               /\ scheduled'[s] = scheduled[s] + 1

(* C11: the deferred deletion of an archive is scheduled only after        *)
(* mp.pack succeeded and the archive was offered for download in the same  *)
(* script run, never for a run that failed before packing, and at most     *)
(* once for an archive: the flag is cleared when it is scheduled.          *)
DeletionAfterHandOff == []HandOffState /\ [][SchedulesAfterOffer]_vars

DeletionScheduled ==
    /\ result[1] = "Done"
    /\ scheduled[1] = 1
    /\ out[1][Len(out[1])] = Download(download_path[1])

----------------------------------------------------------------------------
Renders(s) == pc[s] = "idle" /\ pc'[s] = "rendered"
Presses(s) == pc[s] = "rendered" /\ pc'[s] # "rendered"

(* The sentence as it stands: after a render on a public server the        *)
(* Generate button can be pressed exactly when the length read is below    *)
(* QUEUE_LIMIT.                                                            *)
OfferedBelowCeiling ==
    \A s \in Sessions :
        (Renders(s) /\ public)
            => (Pressable(community, disabled'[s])
                    <=> get_queue_length(queue) < QUEUE_LIMIT)

OfferedExactlyBelowCeiling == [][OfferedBelowCeiling]_vars

NothingBeforeThePress ==
    \A s \in Sessions :
        pc[s] \in {"idle", "rendered"}
            => enq[s] = 0 /\ deq[s] = 0 /\ name[s] = NoName

GateStep ==
    \A s \in Sessions :
        /\ Renders(s)
              => /\ disabled'[s] <=> (public /\ get_queue_length(queue) >= QUEUE_LIMIT)
                 /\ Pressable(community, disabled'[s])
                        <=> (~community
                             /\ (public => get_queue_length(queue) < QUEUE_LIMIT))
                 /\ queue' = queue /\ enq' = enq /\ deq' = deq
        /\ Presses(s)
              => /\ ~community
                 /\ public => ~disabled[s]
                 /\ queue' = queue /\ enq' = enq

(* C12: off the community server the Generate button can be pressed        *)
(* exactly when the queue length read at render time is below QUEUE_LIMIT  *)
(* (on a public server); on the community server it is never shown.  The   *)
(* check changes nothing in the Queue Store and comes before the request   *)
(* is enqueued.                                                            *)
AdmissionGate == []NothingBeforeThePress /\ [][GateStep]_vars

GateShutBesideOpen ==
    /\ ~community
    /\ \E s, u \in Sessions :
        /\ pc[s] = "rendered" /\ disabled[s]
        /\ pc[u] = "waiting" /\ ~disabled[u] /\ enq[u] = 1

----------------------------------------------------------------------------
(* The runs of generate_map that hold a session name and have not ended. *)
Alive(s) == pc[s] \in {"enqueue", "waiting", "finally"} \cup TryBlock

(* C13: on a public server two runs of generate_map that are alive at the *)
(* same time never have the same session name, the key of the Queue Store. *)
SessionNamesUnique ==
    \A s, u \in Sessions :
        (public /\ s # u /\ Alive(s) /\ Alive(u)) => name[s] # name[u]

----------------------------------------------------------------------------
(* The place of each kind of event in the order of a request. *)
Place(ev) ==
    CASE ev.k = "invalid" -> 0
      [] ev.k = "position" -> 1
      [] ev.k = "progress" -> 2
      [] ev.k \in {"success", "error"} -> 3
      [] OTHER -> 4

Finals(s) == Count(s, "success") + Count(s, "error")

----------------------------------------------------------------------------
Exited(s) == pc[s] \in {"returned", "crashed"}

(* C15: once add_to_queue was called, every exit of generate_map has       *)
(* called remove_from_queue: no run has exited with its own entry still in *)
(* the Queue Store.                                                        *)
CleanupArmedAfterEnqueue ==
    \A s \in Sessions :
        (Exited(s) /\ enq[s] = 1)
            => /\ deq[s] = 1
               /\ \/ ~Present(queue, name[s])
                  \/ \E u \in Sessions : u # s /\ Alive(u) /\ name[u] = name[s]

----------------------------------------------------------------------------
(* C16: no error leaves generate_map: a run that started has shown a       *)
(* message for whatever failed and returns; none ends with the error going *)
(* on to the hosting process.                                              *)
NoErrorLeaves ==
    \A s \in Sessions :
        /\ pc[s] # "crashed"
        /\ result[s] # "Raised"

----------------------------------------------------------------------------
(* The progress value after the two increments kept for the previews and   *)
(* for packing.                                                            *)
FullProgress(s) == (yielded[s] + 2) * Step(stages[s])

(* C17: with a step above zero, the full progress value is reported only   *)
(* when mp.pack has completed: a run that reported it has its archive, and *)
(* a run whose mp.pack failed never reported it.                           *)
FullProgressAfterPack ==
    \A s \in Sessions :
        (/\ Step(stages[s]) > 0
         /\ \E i \in DOMAIN out[s] : out[s][i] = Progress(FullProgress(s)))
            => download_path[s] # NoName

----------------------------------------------------------------------------
(* No run was left behind in the Queue Store by an error during its wait. *)
NoneAbandoned ==
    \A s \in Sessions : ~(pc[s] = "crashed" /\ enq[s] = 1 /\ deq[s] = 0)

(* C18: when no session is abandoned and every run is scheduled fairly,    *)
(* every session that was enqueued and waits eventually reads rank 0 in a  *)
(* poll, which ends its wait.                                              *)
EveryAdmittedRuns ==
    []NoneAbandoned => \A s \in Sessions : (pc[s] = "waiting") ~> (observed[s] = 0)

----------------------------------------------------------------------------
(* The positions reported to session s, in order. *)
PositionsOf(s) == SelectSeq(out[s], LAMBDA ev : ev.k = "position")

PositionsNeverRise ==
    \A s \in Sessions :
        \A i, j \in DOMAIN PositionsOf(s) :
            i < j => PositionsOf(s)[i].v >= PositionsOf(s)[j].v

(* u called add_to_queue before s, and both are still in their wait. *)
EnqueuedBefore(u, s) ==
    \E i, j \in DOMAIN waitOrder : i < j /\ waitOrder[i] = u /\ waitOrder[j] = s

NoJump ==
    \A s, u \in Sessions :
        (pc[s] = "waiting" /\ pc'[s] = "try" /\ EnqueuedBefore(u, s))
            => ~Present(queue, name[u])

(* C19: the positions reported to a waiting session never rise, and a      *)
(* session does not leave its wait for the generation while a session      *)
(* that was enqueued before it is still waiting with its entry in the      *)
(* Queue Store.                                                            *)
NoOvertaking == []PositionsNeverRise /\ [][NoJump]_vars

----------------------------------------------------------------------------
(* C20: off a public server no run enqueues, waits or dequeues, the Queue  *)
(* Store stays as it was and the admission check never disables the        *)
(* button; on a public server a run has called add_to_queue before its     *)
(* first generation stage.                                                 *)
QueueOnlyWhenPublic ==
    /\ ~public
          => /\ queue = <<>>
             /\ waitOrder = <<>>
             /\ \A s \in Sessions :
                    /\ enq[s] = 0 /\ deq[s] = 0
                    /\ ~disabled[s]
                    /\ pc[s] \notin {"enqueue", "waiting"}
                    /\ Count(s, "position") = 0
    /\ public
          => \A s \in Sessions :
                (pc[s] \in TryBlock \cup {"finally"} \/ Count(s, "progress") > 0)
                    => enq[s] = 1

PrivateRunsEnded ==
    /\ ~public
    /\ pc[1] = "returned" /\ result[1] = "Failed"
    /\ pc[2] = "returned" /\ result[2] = "Done"

----------------------------------------------------------------------------
(* An entry leaves the Queue Store only in the finally clause of a run     *)
(* that holds its name.                                                    *)
RemovedByHolder ==
    \A n \in Range(queue) \ Range(queue') :
        \E s \in Sessions : name[s] = n /\ pc[s] = "finally" /\ pc'[s] # "finally"

(* A session that stays in its wait keeps its entry, and nobody enqueued   *)
(* after it leaves the wait for the generation.                            *)
WaitingEntryStays ==
    \A s \in Sessions :
        (pc[s] = "waiting" /\ pc'[s] = "waiting" /\ Present(queue, name[s]))
            => /\ Present(queue', name[s])
               /\ \A u \in Sessions :
                      EnqueuedBefore(s, u) => pc'[u] \notin TryBlock

(* C21: an entry is removed only by the dequeue of the run that owns it:   *)
(* while a session stays in its wait, taking no step, its entry stays in   *)
(* the Queue Store and no session enqueued after it starts the generation. *)
AbandonedNeverEvicted == [][RemovedByHolder /\ WaitingEntryStays]_vars

----------------------------------------------------------------------------
(* The runs that are past their wait and before their own dequeue. *)
PastTheWait(s) == pc[s] \in TryBlock \cup {"finally"}

(* C22: on a public server every run that is past its wait and before its  *)
(* own dequeue has its name in the Queue Store at rank 0, so that at most  *)
(* one run is there at any time.                                           *)
RunningIsHead ==
    public
        => /\ \A s \in Sessions : PastTheWait(s) => rank(queue, name[s]) = 0
           /\ Cardinality({s \in Sessions : PastTheWait(s)}) <= 1

----------------------------------------------------------------------------
(* The value the i-th call of the progress reporter gets when n stage      *)
(* names were yielded and the step is st: st.progress(0), then the k-th    *)
(* name with (k-1)*st, the previews with (n+1)*st, packing with (n+2)*st.  *)
Expected(i, n, st) ==
    IF i = 1 THEN 0
    ELSE IF i <= n + 1 THEN (i - 2) * st
    ELSE (i - 1) * st

(* C23: when mp.generate() yields at most len(game.components) names,      *)
(* every value passed to the progress reporter is in 0..100: the k-th      *)
(* stage name is reported with (k-1)*step, the previews with (n+1)*step    *)
(* and packing with (n+2)*step, n being the number of names yielded.       *)
ProgressInRange ==
    \A s \in Sessions :
        /\ Len(ProgressOf(s)) <= yielded[s] + 3
        /\ \A i \in DOMAIN ProgressOf(s) :
              ProgressOf(s)[i].v = Expected(i, yielded[s], Step(stages[s]))
        /\ yielded[s] <= stages[s]
              => \A i \in DOMAIN ProgressOf(s) : ProgressOf(s)[i].v \in 0..100

PackingAtNinetyNine ==
    /\ stages[1] = 1 /\ yielded[1] = 1
    /\ pc[1] = "pack"
    /\ Len(ProgressOf(1)) = 4
    /\ ProgressOf(1)[2].v = 0
    /\ ProgressOf(1)[4].v = 99

====
